---- MODULE Spec2Model ----
(***************************************************************************)
(* Model of review_pull_requests.py: the merge-commit report generator.    *)
(* Text is a sequence of characters (one-character strings, with the       *)
(* named control characters below), so that strip, splitlines, split, the  *)
(* two regular expressions and the f-strings are computed as Python        *)
(* computes them.  Optional values are <<>> (None) or <<v>>.               *)
(***************************************************************************)
EXTENDS Integers, Sequences, FiniteSets, TLC

VARIABLES pc, args, merge_commits, details, summaries, markdown,
          stdout, fs, exc, git_log, fn_arg, fn_ret

vars == <<pc, args, merge_commits, details, summaries, markdown,
          stdout, fs, exc, git_log, fn_arg, fn_ret>>

(***************************************************************************)
(* Characters and the str methods the script uses                          *)
(***************************************************************************)
NUL == "NUL"
LF == "\n"
CR == "\r"
FF == "\f"
TAB == "\t"
\* the backquote character
BQ == "BQ"

None == <<>>
Some(v) == <<v>>

DigitChars == <<"0","1","2","3","4","5","6","7","8","9">>
Digit == {DigitChars[k] : k \in 1..10}
DigitVal(c) == (CHOOSE k \in 1..10 : DigitChars[k] = c) - 1

\* str.isspace() over the characters of the model
Whitespace == {" ", TAB, LF, CR, FF}
\* the line boundaries of str.splitlines() over the characters of the model
LineBreaks == {LF, CR, FF}

SetMin(S) == CHOOSE x \in S : \A y \in S : x <= y
SetMax(S) == CHOOSE x \in S : \A y \in S : x >= y

\* s[:n]
Prefix(s, n) == SubSeq(s, 1, IF n < Len(s) THEN n ELSE Len(s))
\* s[p-1:] for a 1-based p
From(s, p) == SubSeq(s, p, Len(s))

\* str.rstrip(): up to the last character that is no whitespace
rstrip(s) ==
    LET last == CHOOSE i \in 0..Len(s) :
                    /\ i = 0 \/ s[i] \notin Whitespace
                    /\ \A j \in (i + 1)..Len(s) : s[j] \in Whitespace
    IN  SubSeq(s, 1, last)

\* str.lstrip(): from the first character that is no whitespace
lstrip(s) ==
    LET first == CHOOSE i \in 1..(Len(s) + 1) :
                     /\ i = Len(s) + 1 \/ s[i] \notin Whitespace
                     /\ \A j \in 1..(i - 1) : s[j] \in Whitespace
    IN  SubSeq(s, first, Len(s))

strip(s) == rstrip(lstrip(s))

\* str.splitlines(): no line for the empty text, none after a final break;
\* "\r\n" is one break
RECURSIVE splitlines(_)
splitlines(s) ==
    LET breaks == {i \in 1..Len(s) : s[i] \in LineBreaks}
        b      == SetMin(breaks)
        after  == IF s[b] = CR /\ b < Len(s) /\ s[b + 1] = LF THEN b + 2 ELSE b + 1
    IN  IF s = <<>> THEN <<>>
        ELSE IF breaks = {} THEN <<s>>
        ELSE <<SubSeq(s, 1, b - 1)>> \o splitlines(From(s, after))

\* str.split(sep, maxsplit) for a one-character separator
RECURSIVE split(_, _, _)
split(s, sep, maxsplit) ==
    LET at == {i \in 1..Len(s) : s[i] = sep}
    IN  IF maxsplit = 0 \/ at = {} THEN <<s>>
        ELSE <<SubSeq(s, 1, SetMin(at) - 1)>>
             \o split(From(s, SetMin(at) + 1), sep, maxsplit - 1)

\* sep.join(parts)
RECURSIVE join(_, _)
join(sep, parts) ==
    IF parts = <<>> THEN <<>>
    ELSE IF Len(parts) = 1 THEN parts[1]
    ELSE parts[1] \o sep \o join(sep, Tail(parts))

\* int(text) of a run of decimal digits
RECURSIVE int(_)
int(ds) ==
    IF ds = <<>> THEN 0
    ELSE int(SubSeq(ds, 1, Len(ds) - 1)) * 10 + DigitVal(ds[Len(ds)])

\* the text an f-string gives for a non-negative int
RECURSIVE str(_)
str(n) ==
    IF n < 10 THEN <<DigitChars[n + 1]>>
    ELSE str(n \div 10) \o <<DigitChars[(n % 10) + 1]>>

\* does the literal lit stand in s at position p
LitAt(s, p, lit) ==
    /\ p >= 1
    /\ p + Len(lit) - 1 <= Len(s)
    /\ SubSeq(s, p, p + Len(lit) - 1) = lit

\* last position of the greedy \d+ that starts at p, or p - 1 when s[p] is no digit
DigitsEnd(s, p) ==
    LET stops == {q \in p..Len(s) : s[q] \notin Digit}
    IN  IF stops = {} THEN Len(s) ELSE SetMin(stops) - 1

(***************************************************************************)
(* The module-level regular expressions                                    *)
(***************************************************************************)
MergeLiteral ==
    <<"M","e","r","g","e"," ","p","u","l","l"," ","r","e","q","u","e","s","t"," ","#">>

\* variant: the pattern "Merge pull request #(\d)", one digit captured
MERGE_LINE_match_one_digit(s, p) ==
    LET d == p + Len(MergeLiteral)
    IN  IF LitAt(s, p, MergeLiteral) /\ DigitsEnd(s, d) >= d
        THEN Some(SubSeq(s, d, d)) ELSE None

\* MERGE_LINE matched at position p: Some(group 1) or None
MERGE_LINE_match(s, p) ==
    LET d == p + Len(MergeLiteral)
        e == DigitsEnd(s, d)
    IN  IF LitAt(s, p, MergeLiteral) /\ e >= d THEN Some(SubSeq(s, d, e)) ELSE None

\* variant: MERGE_LINE.match(s), which looks at the start of s only
MERGE_LINE_search_anchored(s) == MERGE_LINE_match(s, 1)

\* MERGE_LINE.search(s): the leftmost match
MERGE_LINE_search(s) ==
    LET starts == {p \in 1..Len(s) : MERGE_LINE_match(s, p) # None}
    IN  IF starts = {} THEN None ELSE MERGE_LINE_match(s, SetMin(starts))

\* one optional group (?:, (\d+) <word>[s]?\(<sign>\))? tried at position p:
\* the captured digits (None when the group does not take part) and the
\* position after it
OptionalCount(s, p, word, sign) ==
    LET d  == p + 2
        e  == DigitsEnd(s, d)
        w  == e + 1 + Len(word)
        w2 == IF w <= Len(s) /\ s[w] = "s" THEN w + 1 ELSE w
        ok == /\ LitAt(s, p, <<",", " ">>)
              /\ e >= d
              /\ LitAt(s, e + 1, word)
              /\ LitAt(s, w2, sign)
    IN  IF ok THEN [group |-> Some(SubSeq(s, d, e)), next |-> w2 + Len(sign)]
        ELSE [group |-> None, next |-> p]

\* SUMMARY_LINE matched at position p: None or Some of the three named groups
SUMMARY_LINE_match(s, p) ==
    LET e  == DigitsEnd(s, p)
        f  == e + 1 + Len(<<" ","f","i","l","e">>)
        f2 == IF f <= Len(s) /\ s[f] = "s" THEN f + 1 ELSE f
        ok == /\ p <= Len(s)
              /\ e >= p
              /\ LitAt(s, e + 1, <<" ","f","i","l","e">>)
              /\ LitAt(s, f2, <<" ","c","h","a","n","g","e","d">>)
        c  == f2 + Len(<<" ","c","h","a","n","g","e","d">>)
        ins == OptionalCount(s, c, <<" ","i","n","s","e","r","t","i","o","n">>,
                             <<"(","+",")">>)
        del == OptionalCount(s, ins.next, <<" ","d","e","l","e","t","i","o","n">>,
                             <<"(","-",")">>)
    IN  IF ok
        THEN Some([files |-> SubSeq(s, p, e),
                   insertions |-> ins.group,
                   deletions |-> del.group])
        ELSE None

\* SUMMARY_LINE.search(s): the leftmost match
SUMMARY_LINE_search(s) ==
    LET starts == {p \in 1..Len(s) : SUMMARY_LINE_match(s, p) # None}
    IN  IF starts = {} THEN None ELSE SUMMARY_LINE_match(s, SetMin(starts))

(***************************************************************************)
(* Results of a call: a returned value or a raised exception               *)
(***************************************************************************)
NoExc == [type |-> "none", msg |-> <<>>]
Return(v) == [raised |-> FALSE, exc |-> NoExc, value |-> v]
Raise(type, msg) == [raised |-> TRUE, exc |-> [type |-> type, msg |-> msg], value |-> <<>>]

GenericMessage ==
    <<"g","i","t"," ","c","o","m","m","a","n","d"," ","f","a","i","l","e","d">>
UnpackMessage(want, got) ==
    <<"n","o","t"," ","e","n","o","u","g","h"," ","v","a","l","u","e","s"," ",
      "t","o"," ","u","n","p","a","c","k"," ","(","e","x","p","e","c","t","e","d"," ">>
    \o str(want) \o <<","," ","g","o","t"," ">> \o str(got) \o <<")">>

\* variant: the message is result.stderr as it is, untrimmed
run_git_command_untrimmed(result) ==
    IF result.returncode # 0
    THEN Raise("GitError", IF result.stderr # <<>> THEN result.stderr ELSE GenericMessage)
    ELSE Return(result.stdout)

\* result is the CompletedProcess of subprocess.run: returncode, stdout, stderr
run_git_command(result) ==
    IF result.returncode # 0
    THEN Raise("GitError",
               IF strip(result.stderr) # <<>> THEN strip(result.stderr) ELSE GenericMessage)
    ELSE Return(result.stdout)

(***************************************************************************)
(* PullRequestSummary                                                      *)
(***************************************************************************)
PullRequestSummary(commit, title, pr_number, author, date, body, files_changed, insertions, deletions, file_summaries) ==
    [commit |-> commit, title |-> title, pr_number |-> pr_number,
     author |-> author, date |-> date, body |-> body,
     files_changed |-> files_changed, insertions |-> insertions,
     deletions |-> deletions, file_summaries |-> file_summaries]

identifier(summary) ==
    IF summary.pr_number # None
    THEN <<"P","R"," ","#">> \o str(summary.pr_number[1])
    ELSE Prefix(summary.commit, 7)

(***************************************************************************)
(* History Scanner, Detail Extractor, Diffstat Parser                      *)
(***************************************************************************)
\* one listing line with its NUL: the (commit, subject, pr_number) triple
commit_entry(line) ==
    LET parts == split(line, NUL, 1)
        match == MERGE_LINE_search(parts[2])
    IN  [commit |-> parts[1],
         subject |-> parts[2],
         pr_number |-> IF match # None THEN Some(int(match[1])) ELSE None]

\* get_merge_commits after the git call: result is what subprocess.run gave
get_merge_commits(result) ==
    LET output == run_git_command(result)
        lines  == SelectSeq(splitlines(strip(output.value)), LAMBDA l : l # <<>>)
        short  == {i \in 1..Len(lines) : Len(split(lines[i], NUL, 1)) # 2}
    IN  IF output.raised THEN output
        ELSE IF short # {} THEN Raise("ValueError", UnpackMessage(2, 1))
        ELSE Return([i \in 1..Len(lines) |-> commit_entry(lines[i])])

extract_commit_details(result) ==
    LET output == run_git_command(result)
        parts  == split(output.value, NUL, 2)
    IN  IF output.raised THEN output
        ELSE IF Len(parts) # 3 THEN Raise("ValueError", UnpackMessage(3, Len(parts)))
        ELSE Return([author |-> strip(parts[1]),
                     date |-> strip(parts[2]),
                     body |-> strip(parts[3])])

\* variant: the line is cut at its last "|", as str.rsplit does
file_entry_rsplit(entry) ==
    LET last == SetMax({k \in 1..Len(entry) : entry[k] = "|"})
    IN  <<strip(SubSeq(entry, 1, last - 1)), strip(From(entry, last + 1))>>

\* one per-file line holding "|": (filename, stats)
file_entry(entry) ==
    LET parts == split(entry, "|", 1)
    IN  <<strip(parts[1]), strip(parts[2])>>

\* variant: the aggregate line taken to be the first line, not the last
parse_diffstat_output_first_line(output) ==
    LET kept  == SelectSeq(splitlines(output), LAMBDA l : strip(l) # <<>>)
        lines == [i \in 1..Len(kept) |-> rstrip(kept[i])]
        summary_match == SUMMARY_LINE_search(lines[1])
        entries == SelectSeq(Tail(lines), LAMBDA e : \E k \in 1..Len(e) : e[k] = "|")
    IN  IF lines = <<>>
        THEN [files_changed |-> 0, insertions |-> 0, deletions |-> 0,
              file_summaries |-> <<>>]
        ELSE [files_changed |->
                  IF summary_match # None THEN int(summary_match[1].files) ELSE 0,
              insertions |->
                  IF summary_match # None /\ summary_match[1].insertions # None
                  THEN int(summary_match[1].insertions[1]) ELSE 0,
              deletions |->
                  IF summary_match # None /\ summary_match[1].deletions # None
                  THEN int(summary_match[1].deletions[1]) ELSE 0,
              file_summaries |-> [i \in 1..Len(entries) |-> file_entry(entries[i])]]

\* the diffstat text after the git call succeeded
parse_diffstat_output(output) ==
    LET kept  == SelectSeq(splitlines(output), LAMBDA l : strip(l) # <<>>)
        lines == [i \in 1..Len(kept) |-> rstrip(kept[i])]
        summary_match == SUMMARY_LINE_search(lines[Len(lines)])
        files_changed == IF summary_match # None THEN int(summary_match[1].files) ELSE 0
        insertions ==
            IF summary_match # None /\ summary_match[1].insertions # None
            THEN int(summary_match[1].insertions[1]) ELSE 0
        deletions ==
            IF summary_match # None /\ summary_match[1].deletions # None
            THEN int(summary_match[1].deletions[1]) ELSE 0
        entries == SelectSeq(SubSeq(lines, 1, Len(lines) - 1),
                             LAMBDA e : \E k \in 1..Len(e) : e[k] = "|")
        file_summaries == [i \in 1..Len(entries) |-> file_entry(entries[i])]
    IN  IF lines = <<>>
        THEN [files_changed |-> 0, insertions |-> 0, deletions |-> 0,
              file_summaries |-> <<>>]
        ELSE [files_changed |-> files_changed, insertions |-> insertions,
              deletions |-> deletions, file_summaries |-> file_summaries]

parse_diffstat(result) ==
    LET output == run_git_command(result)
    IN  IF output.raised THEN output ELSE Return(parse_diffstat_output(output.value))

(***************************************************************************)
(* Summary Builder: the record composed once both queries returned         *)
(***************************************************************************)
build_summary(commit_info, det, stat) ==
    PullRequestSummary(
        commit_info.commit,
        commit_info.subject,
        commit_info.pr_number,
        det.author,
        det.date,
        IF \E k \in 1..Len(det.body) : det.body[k] = LF THEN strip(det.body) ELSE det.body,
        stat.files_changed,
        stat.insertions,
        stat.deletions,
        stat.file_summaries)

(***************************************************************************)
(* Renderer                                                                *)
(***************************************************************************)
TitleLine ==
    <<"#"," ","P","u","l","l"," ","R","e","q","u","e","s","t"," ","R","e","v","i","e","w",
      " ","S","u","m","m","a","r","y">>
NoMergeNotice ==
    <<"N","o"," ","m","e","r","g","e"," ","c","o","m","m","i","t","s"," ","w","e","r","e",
      " ","f","o","u","n","d"," ","i","n"," ","t","h","i","s"," ","r","e","p","o","s","i",
      "t","o","r","y",".">>
GeneratedLine ==
    <<"G","e","n","e","r","a","t","e","d"," ","b","y"," ",BQ,"r","e","v","i","e","w","_",
      "p","u","l","l","_","r","e","q","u","e","s","t","s",".","p","y",BQ,".",LF>>

heading_line(summary) ==
    <<"#","#"," ">> \o identifier(summary) \o <<":"," ">> \o summary.title

\* variant: insertions and deletions change places
changes_line_swapped(summary) ==
    <<"-"," ","*","*","C","h","a","n","g","e","s",":","*","*"," ">>
    \o str(summary.files_changed) \o <<" ","f","i","l","e","(","s",")",","," ">>
    \o str(summary.deletions) \o <<" ","i","n","s","e","r","t","i","o","n","(","s",")",","," ">>
    \o str(summary.insertions) \o <<" ","d","e","l","e","t","i","o","n","(","s",")">>

changes_line(summary) ==
    <<"-"," ","*","*","C","h","a","n","g","e","s",":","*","*"," ">>
    \o str(summary.files_changed) \o <<" ","f","i","l","e","(","s",")",","," ">>
    \o str(summary.insertions) \o <<" ","i","n","s","e","r","t","i","o","n","(","s",")",","," ">>
    \o str(summary.deletions) \o <<" ","d","e","l","e","t","i","o","n","(","s",")">>

table_row(pair) ==
    <<"|"," ">> \o pair[1] \o <<" ","|"," ">> \o pair[2] \o <<" ","|">>

body_lines(summary) ==
    LET bl == splitlines(summary.body)
    IN  IF summary.body = <<>> THEN <<>>
        ELSE << <<>>,
                <<"*","*","C","o","m","m","i","t"," ","m","e","s","s","a","g","e"," ",
                  "b","o","d","y",":","*","*">>,
                <<>> >>
             \o [i \in 1..Len(bl) |-> IF bl[i] # <<>> THEN <<">"," ">> \o bl[i] ELSE <<">">>]

files_lines(summary) ==
    IF summary.file_summaries = <<>> THEN <<>>
    ELSE << <<>>,
            <<"*","*","F","i","l","e","s"," ","c","h","a","n","g","e","d",":","*","*">>,
            <<>>,
            <<"|"," ","F","i","l","e"," ","|"," ","D","i","f","f","s","t","a","t"," ","|">>,
            <<"|"," ","-","-","-"," ","|"," ","-","-","-"," ","|">> >>
         \o [i \in 1..Len(summary.file_summaries) |-> table_row(summary.file_summaries[i])]

\* the lines one pass of the loop appends
summary_lines(summary) ==
    << heading_line(summary),
       <<>>,
       <<"-"," ","*","*","C","o","m","m","i","t",":","*","*"," ",BQ>> \o summary.commit \o <<BQ>>,
       <<"-"," ","*","*","A","u","t","h","o","r",":","*","*"," ">> \o summary.author,
       <<"-"," ","*","*","D","a","t","e",":","*","*"," ">> \o summary.date,
       changes_line(summary) >>
    \o body_lines(summary)
    \o files_lines(summary)
    \o << <<>> >>

RECURSIVE all_summary_lines(_)
all_summary_lines(ss) ==
    IF ss = <<>> THEN <<>> ELSE summary_lines(Head(ss)) \o all_summary_lines(Tail(ss))

\* variant: no early return for the empty list
render_markdown_no_early_return(ss) ==
    rstrip(join(<<LF>>, <<TitleLine, <<>>, GeneratedLine>> \o all_summary_lines(ss)))
    \o <<LF>>

\* variant: the joined lines are not right-trimmed
render_markdown_untrimmed(ss) ==
    IF ss = <<>>
    THEN join(<<LF>>, <<TitleLine, <<>>, NoMergeNotice>>)
    ELSE join(<<LF>>, <<TitleLine, <<>>, GeneratedLine>> \o all_summary_lines(ss)) \o <<LF>>

render_markdown(ss) ==
    IF ss = <<>>
    THEN join(<<LF>>, <<TitleLine, <<>>, NoMergeNotice>>)
    ELSE rstrip(join(<<LF>>, <<TitleLine, <<>>, GeneratedLine>> \o all_summary_lines(ss)))
         \o <<LF>>

(***************************************************************************)
(* Writer and print                                                        *)
(***************************************************************************)
\* variant: the file is opened for appending
write_markdown_append(files, path, content) ==
    [files EXCEPT ![path] = IF files[path] = None THEN Some(content)
                            ELSE Some(files[path][1] \o content)]

\* path.write_text(content): the file at path holds content and nothing else
write_markdown(files, path, content) == [files EXCEPT ![path] = Some(content)]

\* print(text): the text and the newline print ends with
print(out, text) == out \o text \o <<LF>>

(***************************************************************************)
(* The environment: what subprocess.run can give for each git query        *)
(***************************************************************************)
MaxLimit == 2

CompletedProcess(returncode, out, err) ==
    [returncode |-> returncode, stdout |-> out, stderr |-> err]

HashA == <<"a","1","b","2","c","3","d","4">>
HashB == <<"0","f","9","e","8","d","7","c">>
HashC == <<"5","5","5","5","e","e","e","e">>

SubjectPR42 ==
    <<"M","e","r","g","e"," ","p","u","l","l"," ","r","e","q","u","e","s","t"," ","#","4","2",
      " ","f","r","o","m"," ","u","s","e","r","/","b","r","a","n","c","h">>
SubjectBranch ==
    <<"M","e","r","g","e"," ","b","r","a","n","c","h"," ","d","e","v">>
SubjectPR0 ==
    <<"M","e","r","g","e"," ","p","u","l","l"," ","r","e","q","u","e","s","t"," ","#","0",
      " ","f","r","o","m"," ","x","/","y">>

\* the lines "%H%x00%s" gives for the merge commits of the model's repositories
ListingLines ==
    { HashA \o <<NUL>> \o SubjectPR42,
      HashB \o <<NUL>> \o SubjectBranch,
      HashC \o <<NUL>> \o SubjectPR0 }

\* the sequences without repetition of at most n elements of S
Arrangements(S, n) ==
    UNION { {f \in [1..k -> S] : \A i, j \in 1..k : i # j => f[i] # f[j]} : k \in 0..n }

FatalNotARepo ==
    <<"f","a","t","a","l",":"," ","n","o","t"," ","a"," ","g","i","t"," ","r","e","p","o",
      "s","i","t","o","r","y",LF>>
FatalBadObject ==
    <<"f","a","t","a","l",":"," ","b","a","d"," ","o","b","j","e","c","t",LF>>

\* git log --merges --max-count=limit: at most limit lines, newest first
ListingResults(limit) ==
    { CompletedProcess(0, join(<<LF>>, ls), <<>>) : ls \in Arrangements(ListingLines, limit) }
    \cup { CompletedProcess(128, <<>>, FatalNotARepo),
           CompletedProcess(1, HashA \o <<NUL>> \o SubjectPR42, <<" ",LF>>) }

DetailsAlice ==
    <<"A","l","i","c","e",NUL,"2","0","2","4","-","0","1","-","0","1",NUL,
      "M","e","r","g","e"," ","p","u","l","l"," ","r","e","q","u","e","s","t"," ","#","4","2",
      " ",".",".",".",LF,LF,"F","i","x","e","s"," ","b","u","g">>
DetailsBob ==
    <<"B","o","b",NUL,"T","u","e"," ","J","a","n"," ","2",NUL,LF>>

\* git log -1 <commit> --pretty=format:%an%x00%ad%x00%B
DetailResults ==
    { CompletedProcess(0, DetailsAlice, <<>>),
      CompletedProcess(0, DetailsBob, <<>>),
      CompletedProcess(128, <<>>, FatalBadObject) }

DiffstatOneFile ==
    <<"s","r","c","/","a",".","p","y"," ","|"," ","5"," ","+","+","+","-","-",LF,
      "1"," ","f","i","l","e"," ","c","h","a","n","g","e","d",","," ","3"," ","i","n","s",
      "e","r","t","i","o","n","s","(","+",")",","," ","2"," ","d","e","l","e","t","i","o","n",
      "s","(","-",")">>

\* git show --stat --pretty=format: <commit>
DiffstatResults ==
    { CompletedProcess(0, DiffstatOneFile, <<>>),
      CompletedProcess(0, <<>>, <<>>),
      CompletedProcess(128, <<"x">>, FatalBadObject) }

DefaultOutput == "PR_REVIEW_SUMMARY.md"
Paths == {DefaultOutput, "notes/review.md"}
OldReport == <<"o","l","d"," ","r","e","p","o","r","t",LF>>

\* the argument lists handed to run_git_command
ListingArgs(limit) == [cmd |-> "log --merges --pretty=format:%H%x00%s",
                       max_count |-> Some(limit), commit |-> None]
DetailArgs(commit) == [cmd |-> "log -1 --pretty=format:%an%x00%ad%x00%B",
                       max_count |-> None, commit |-> Some(commit)]
DiffstatArgs(commit) == [cmd |-> "show --stat --pretty=format:",
                         max_count |-> None, commit |-> Some(commit)]
GitCall(argv, result) == [argv |-> argv, result |-> result]

(***************************************************************************)
(* main(): one run of the script                                           *)
(***************************************************************************)
Init ==
    /\ pc = "get_merge_commits"
    /\ args \in [limit : 1..MaxLimit, output : Paths, stdout : BOOLEAN]
    /\ merge_commits = <<>>
    /\ details = None
    /\ summaries = <<>>
    /\ markdown = None
    /\ stdout = <<>>
    /\ fs \in {[p \in Paths |-> None], [p \in Paths |-> Some(OldReport)]}
    /\ exc = NoExc
    /\ git_log = <<>>
    /\ fn_arg = None
    /\ fn_ret = None

\* variant: the failure is caught and the commits built so far are rendered
Abort_salvage(e) ==
    /\ pc' = "render_markdown"
    /\ exc' = e

\* an exception leaves main: the run ends with it
Abort(e) ==
    /\ pc' = "raised"
    /\ exc' = e

\* main, line 226
MainGetMergeCommits ==
    /\ pc = "get_merge_commits"
    /\ \E result \in ListingResults(args.limit) :
         LET r == get_merge_commits(result)
         IN  /\ git_log' = Append(git_log, GitCall(ListingArgs(args.limit), result))
             /\ IF r.raised
                THEN Abort(r.exc) /\ UNCHANGED merge_commits
                ELSE /\ merge_commits' = r.value
                     /\ pc' = IF r.value = <<>> THEN "render_markdown"
                              ELSE "extract_commit_details"
                     /\ UNCHANGED exc
    /\ UNCHANGED <<args, details, summaries, markdown, stdout, fs, fn_arg, fn_ret>>

\* variant: every summary is built for the first commit of the list
Current_first == merge_commits[1]

\* the commit the list comprehension of line 227 is at
Current == merge_commits[Len(summaries) + 1]

\* build_summary, line 140
BuildExtractCommitDetails ==
    /\ pc = "extract_commit_details"
    /\ \E result \in DetailResults :
         LET r == extract_commit_details(result)
         IN  /\ git_log' = Append(git_log, GitCall(DetailArgs(Current.commit), result))
             /\ IF r.raised
                THEN Abort(r.exc) /\ UNCHANGED details
                ELSE /\ details' = Some(r.value)
                     /\ pc' = "parse_diffstat"
                     /\ UNCHANGED exc
    /\ UNCHANGED <<args, merge_commits, summaries, markdown, stdout, fs, fn_arg, fn_ret>>

\* build_summary, lines 141-156
BuildParseDiffstat ==
    /\ pc = "parse_diffstat"
    /\ \E result \in DiffstatResults :
         LET r == parse_diffstat(result)
         IN  /\ git_log' = Append(git_log, GitCall(DiffstatArgs(Current.commit), result))
             /\ IF r.raised
                THEN Abort(r.exc) /\ UNCHANGED <<summaries, details>>
                ELSE /\ summaries' = Append(summaries, build_summary(Current, details[1], r.value))
                     /\ details' = None
                     /\ pc' = IF Len(summaries) + 1 = Len(merge_commits)
                              THEN "render_markdown" ELSE "extract_commit_details"
                     /\ UNCHANGED exc
    /\ UNCHANGED <<args, merge_commits, markdown, stdout, fs, fn_arg, fn_ret>>

\* main, line 228
MainRenderMarkdown ==
    /\ pc = "render_markdown"
    /\ markdown' = Some(render_markdown(summaries))
    /\ pc' = "output"
    /\ UNCHANGED <<args, merge_commits, details, summaries, stdout, fs, exc, git_log,
                   fn_arg, fn_ret>>

\* main, lines 230-231
MainPrint ==
    /\ pc = "output"
    /\ args.stdout
    /\ stdout' = print(stdout, markdown[1])
    /\ pc' = "done"
    /\ UNCHANGED <<args, merge_commits, details, summaries, markdown, fs, exc, git_log,
                   fn_arg, fn_ret>>

\* main, lines 232-233
MainWriteMarkdown ==
    /\ pc = "output"
    /\ ~args.stdout
    /\ fs' = write_markdown(fs, args.output, markdown[1])
    /\ pc' = "done"
    /\ UNCHANGED <<args, merge_commits, details, summaries, markdown, stdout, exc, git_log,
                   fn_arg, fn_ret>>

Next ==
    \/ MainGetMergeCommits
    \/ BuildExtractCommitDetails
    \/ BuildParseDiffstat
    \/ MainRenderMarkdown
    \/ MainPrint
    \/ MainWriteMarkdown

Spec == Init /\ [][Next]_vars

(***************************************************************************)
(* The functions on their own: Init draws the argument, one step applies   *)
(* the function                                                            *)
(***************************************************************************)
CallInit(inputs) ==
    /\ pc = "call"
    /\ fn_arg \in {Some(x) : x \in inputs}
    /\ fn_ret = None
    /\ args = [limit |-> 1, output |-> DefaultOutput, stdout |-> FALSE]
    /\ merge_commits = <<>>
    /\ details = None
    /\ summaries = <<>>
    /\ markdown = None
    /\ stdout = <<>>
    /\ fs = [p \in Paths |-> None]
    /\ exc = NoExc
    /\ git_log = <<>>

CallReturn(value) ==
    /\ pc = "call"
    /\ fn_ret' = Some(value)
    /\ pc' = "returned"
    /\ UNCHANGED <<args, merge_commits, details, summaries, markdown, stdout, fs, exc,
                   git_log, fn_arg>>

\* ---- run_git_command ----
GitStdouts == { <<>>, <<"o","u","t",LF>>, HashA \o <<NUL>> \o SubjectBranch \o <<LF>>,
                <<" ","x"," ">> }
GitStderrs == { <<>>, <<" ",LF>>, <<LF,TAB," ",CR,FF>>, FatalBadObject,
                <<" ",LF>> \o FatalNotARepo \o <<" ",LF>>,
                <<"w","a","r","n",":"," ","a",LF,"e","r","r","o","r",":"," ","b",LF>>,
                <<"x">> }
GitReturnCodes == {0, 1, 2, 128, -9}
GitResults ==
    { CompletedProcess(rc, out, err) :
        rc \in GitReturnCodes, out \in GitStdouts, err \in GitStderrs }

InitGit == CallInit(GitResults)
CallRunGitCommand == CallReturn(run_git_command(fn_arg[1]))
SpecGit == InitGit /\ [][CallRunGitCommand]_vars

\* ---- get_merge_commits ----
MaxScanLines == 2

FromUserBranch == <<" ","f","r","o","m"," ","u","s","e","r","/","b","r","a","n","c","h">>
ScanSubjects ==
    { SubjectPR42,
      SubjectPR0,
      SubjectBranch,
      <<>>,
      MergeLiteral,
      MergeLiteral \o <<"7">>,
      MergeLiteral \o <<"0","0","7">> \o FromUserBranch,
      MergeLiteral \o <<"x","1">>,
      MergeLiteral \o <<"5",":"," ","a","|","b",";"," "," ","c">>,
      <<"m">> \o Tail(MergeLiteral) \o <<"5">>,
      SubSeq(MergeLiteral, 1, Len(MergeLiteral) - 1) \o <<"9">>,
      <<"R","e","v","e","r","t"," ">> \o MergeLiteral \o <<"1","2">> \o <<" ","n","o","w">>,
      MergeLiteral \o <<"3"," ">> \o MergeLiteral \o <<"4">>,
      <<"f","i","x",FF>> \o MergeLiteral \o <<"8">> }

\* the hash of the commit on line i of a listing
ScanHash(i) == <<DigitChars[i + 1]>> \o <<"f","9","e","8","d","7","c","b">>

ScanOutputs ==
    UNION { { join(<<LF>>, [i \in 1..k |-> ScanHash(i) \o <<NUL>> \o f[i]]) :
                f \in [1..k -> ScanSubjects] } : k \in 0..MaxScanLines }

ScanResults ==
    { CompletedProcess(0, out, <<>>) : out \in ScanOutputs }
    \cup { CompletedProcess(128, <<>>, FatalNotARepo) }

InitScan == CallInit(ScanResults)
CallGetMergeCommits == CallReturn(get_merge_commits(fn_arg[1]))
SpecScan == InitScan /\ [][CallGetMergeCommits]_vars

\* ---- parse_diffstat ----
MaxFileLines == 2

\* ", <n> <word>[s](<sign>)" as git writes one count
CountText(n, word, plural, sign) ==
    <<",", " ">> \o str(n) \o word \o (IF plural THEN <<"s">> ELSE <<>>) \o sign

\* the aggregate line of a diffstat for n files, optional m insertions and
\* optional k deletions, each noun plural or not
SummaryText(n, p1, m, p2, k, p3) ==
    str(n) \o <<" ","f","i","l","e">> \o (IF p1 THEN <<"s">> ELSE <<>>)
    \o <<" ","c","h","a","n","g","e","d">>
    \o (IF m # None
        THEN CountText(m[1], <<" ","i","n","s","e","r","t","i","o","n">>, p2, <<"(","+",")">>)
        ELSE <<>>)
    \o (IF k # None
        THEN CountText(k[1], <<" ","d","e","l","e","t","i","o","n">>, p3, <<"(","-",")">>)
        ELSE <<>>)

FileCounts == {1, 3, 12}
InsertionCounts == {None, Some(1), Some(10)}
DeletionCounts == {None, Some(1), Some(2)}
Plural(n) == n # 1

\* aggregate lines as git writes them
GitSummaryLines ==
    { <<" ">> \o SummaryText(n, Plural(n), m, m # None /\ Plural(m[1]),
                             k, k # None /\ Plural(k[1])) :
        n \in FileCounts, m \in InsertionCounts, k \in DeletionCounts }

\* last lines that are no aggregate line, or an odd one
OddLastLines ==
    { <<" ","s","r","c","/","a",".","p","y"," ","|"," ","5"," ","+","+","+","-","-">>,
      <<"g","a","r","b","a","g","e">>,
      <<" ","3"," ","f","i","l","e","s"," ","c","h","a","n","g","e","s">>,
      <<" ">> \o SummaryText(1, TRUE, Some(5), FALSE, None, FALSE),
      <<" ">> \o SummaryText(2, TRUE, None, FALSE, None, FALSE)
          \o CountText(4, <<" ","i","n","s","e","r","t","i","o","n">>, TRUE, <<"(","+",")">>)
          \o <<" ","x">>,
      <<"x">> \o SummaryText(1, FALSE, Some(0), TRUE, Some(0), TRUE) \o <<" "," ">> }

FileLines ==
    { <<" ","s","r","c","/","a",".","p","y"," ","|"," ","5"," ","+","+","+","-","-">>,
      <<" ","b","|","c"," ","|"," ","2"," ","+","-"," ">>,
      <<" ","n","o"," ","b","a","r">>,
      <<" "," ">> }

DiffstatOutputs ==
    UNION { { join(<<LF>>, f \o <<last>>) \o <<LF>> :
                f \in [1..k -> FileLines], last \in GitSummaryLines \cup OddLastLines } :
            k \in 0..MaxFileLines }
    \cup { <<>>, <<LF," ",LF>> }

DiffstatResults_fn ==
    { CompletedProcess(0, out, <<>>) : out \in DiffstatOutputs }
    \cup { CompletedProcess(128, <<>>, FatalBadObject) }

InitDiffstat == CallInit(DiffstatResults_fn)
CallParseDiffstat == CallReturn(parse_diffstat(fn_arg[1]))
SpecDiffstat == InitDiffstat /\ [][CallParseDiffstat]_vars

\* ---- render_markdown ----
MaxSummaries == 2

RenderTitles == { <<<<"F","i","x">>, Some(7)>>, <<<<"t"," ",TAB>>, None>> }
RenderBodies == { <<>>, <<"a",LF,LF,"b"," ",LF>>, <<" ">> }
RenderFiles == { <<>>, << <<<<"f",".","p","y">>, <<"2"," ","+","-"," ",LF,LF>>>> >> }

RenderSummaries ==
    { PullRequestSummary(HashA, t[1], t[2], <<"A","n","n">>, <<"M","o","n">>, b, 1, 2, 0, f) :
        t \in RenderTitles, b \in RenderBodies, f \in RenderFiles }

RenderInputs == UNION { [1..k -> RenderSummaries] : k \in 0..MaxSummaries }

InitRender == CallInit(RenderInputs)
CallRenderMarkdown == CallReturn(render_markdown(fn_arg[1]))
SpecRender == InitRender /\ [][CallRenderMarkdown]_vars

(***************************************************************************)
(* Properties                                                              *)
(***************************************************************************)
\* the first position where "Merge pull request #" and then a digit stand in
\* s, or 0 when there is none
MergeAt(s) ==
    LET ps == {p \in 1..Len(s) :
                 /\ LitAt(s, p, MergeLiteral)
                 /\ p + Len(MergeLiteral) <= Len(s)
                 /\ s[p + Len(MergeLiteral)] \in Digit}
    IN  IF ps = {} THEN 0 ELSE SetMin(ps)

\* the whole run of digits <N> after that first "Merge pull request #"
MergeDigits(s) ==
    LET d == MergeAt(s) + Len(MergeLiteral)
        e == CHOOSE e \in d..Len(s) :
                 /\ \A k \in d..e : s[k] \in Digit
                 /\ e = Len(s) \/ s[e + 1] \notin Digit
    IN  SubSeq(s, d, e)

\* the number a decimal numeral denotes
RECURSIVE Decimal(_)
Decimal(ds) ==
    IF ds = <<>> THEN 0
    ELSE DigitVal(Head(ds)) * 10 ^ (Len(ds) - 1) + Decimal(Tail(ds))

\* ds without its leading zeros
RECURSIVE Canonical(_)
Canonical(ds) ==
    IF Len(ds) > 1 /\ Head(ds) = "0" THEN Canonical(Tail(ds)) ELSE ds

PRPrefix == <<"P","R"," ","#">>

\* a summary that carries the triple c of the history scan
SummaryOf(c) ==
    PullRequestSummary(c.commit, c.subject, c.pr_number, <<>>, <<>>, <<>>, 0, 0, 0, <<>>)

\* C1: every triple get_merge_commits returns whose subject contains
\* "Merge pull request #<N>" has pr_number = N and identifier "PR #<N>";
\* every other triple has pr_number None and, as identifier, the first 7
\* characters of the commit hash.
C1_PrNumberAndIdentifier ==
    (pc = "returned" /\ ~fn_ret[1].raised) =>
        \A k \in 1..Len(fn_ret[1].value) :
            LET c  == fn_ret[1].value[k]
                id == identifier(SummaryOf(c))
            IN  IF MergeAt(c.subject) # 0
                THEN /\ c.pr_number = Some(Decimal(MergeDigits(c.subject)))
                     /\ id = PRPrefix \o Canonical(MergeDigits(c.subject))
                ELSE /\ c.pr_number = None
                     /\ Len(id) = 7
                     /\ \A i \in 1..7 : id[i] = c.commit[i]

\* C1 witness: a scan returned a triple for "...#007..." (pr_number 7) after
\* a triple whose subject has no such pattern
C1_Witness ==
    /\ pc = "returned"
    /\ ~fn_ret[1].raised
    /\ Len(fn_ret[1].value) = 2
    /\ fn_ret[1].value[1].pr_number = None
    /\ fn_ret[1].value[1].subject = SubjectBranch
    /\ fn_ret[1].value[2].pr_number = Some(7)
    /\ MergeDigits(fn_ret[1].value[2].subject) = <<"0","0","7">>

\* C2 as claimed: rendering the empty list gives the notice and nothing else
C2_EmptyOnlyNotice ==
    (pc = "returned" /\ fn_arg[1] = <<>>) => fn_ret[1] = NoMergeNotice

\* C2 as amended: rendering the empty list gives the title heading, a blank
\* line and the notice, with no generator line and nothing after the notice
C2_EmptyTitleAndNotice ==
    (pc = "returned" /\ fn_arg[1] = <<>>) =>
        fn_ret[1] =
            <<"#"," ","P","u","l","l"," ","R","e","q","u","e","s","t"," ","R","e","v","i",
              "e","w"," ","S","u","m","m","a","r","y",LF,LF,
              "N","o"," ","m","e","r","g","e"," ","c","o","m","m","i","t","s"," ","w","e",
              "r","e"," ","f","o","u","n","d"," ","i","n"," ","t","h","i","s"," ","r","e",
              "p","o","s","i","t","o","r","y",".">>

\* C2 witness: render_markdown returned for the empty list
C2_Witness == pc = "returned" /\ fn_arg[1] = <<>> /\ Len(fn_ret[1]) > 0

\* C3: for a non-empty list the rendered text ends with exactly one newline:
\* its last character is a newline and the one before is no whitespace
C3_EndsWithOneNewline ==
    (pc = "returned" /\ fn_arg[1] # <<>>) =>
        LET t == fn_ret[1]
        IN  /\ Len(t) >= 2
            /\ t[Len(t)] = LF
            /\ t[Len(t) - 1] \notin Whitespace

\* C3 witness: the last summary rendered has a body of whitespace only and no
\* file table, so the joined lines end in whitespace before the trim
C3_Witness ==
    /\ pc = "returned"
    /\ Len(fn_arg[1]) = 2
    /\ fn_arg[1][2].body = <<" ">>
    /\ fn_arg[1][2].file_summaries = <<>>
    /\ fn_arg[1][1].file_summaries # <<>>
    /\ fn_ret[1][Len(fn_ret[1])] = LF

\* the last non-blank line of a text, without its trailing whitespace
LastLine(out) ==
    LET e == CHOOSE i \in 0..Len(out) :
                 /\ i = 0 \/ out[i] \notin Whitespace
                 /\ \A j \in (i + 1)..Len(out) : out[j] \in Whitespace
        bs == {b \in 1..e : out[b] \in LineBreaks}
    IN  SubSeq(out, IF bs = {} THEN 1 ELSE SetMax(bs) + 1, e)

\* no "<digit> file changed" or "<digit> files changed" anywhere in the line
NoAggregate(line) ==
    \A p \in 1..Len(line) :
        line[p] \in Digit =>
            /\ ~LitAt(line, p + 1, <<" ","f","i","l","e"," ","c","h","a","n","g","e","d">>)
            /\ ~LitAt(line, p + 1, <<" ","f","i","l","e","s"," ","c","h","a","n","g","e","d">>)

Totals(r) == <<r.files_changed, r.insertions, r.deletions>>
OrZero(opt) == IF opt = None THEN 0 ELSE opt[1]

CheckedFileCounts == {1, 2, 3, 12}
CheckedInsertionCounts == {None, Some(0), Some(1), Some(5), Some(10)}
CheckedDeletionCounts == {None, Some(0), Some(1), Some(2)}

\* C4: with a non-blank line in the output, parse_diffstat reads the totals
\* from the last non-blank line: N of "N file(s) changed", M of an optional
\* ", M insertion(s)(+)", K of an optional ", K deletion(s)(-)", 0 for each
\* part that is missing; a last line that does not match gives (0, 0, 0) and
\* no error.
C4_TotalsFromLastLine ==
    (pc = "returned" /\ fn_arg[1].returncode = 0) =>
        LET out  == fn_arg[1].stdout
            line == LastLine(out)
        IN  /\ ~fn_ret[1].raised
            /\ line # <<>> /\ NoAggregate(line) => Totals(fn_ret[1].value) = <<0, 0, 0>>
            /\ \A n \in CheckedFileCounts, m \in CheckedInsertionCounts,
                  k \in CheckedDeletionCounts, p1, p2, p3 \in BOOLEAN :
                   line = <<" ">> \o SummaryText(n, p1, m, p2, k, p3) =>
                       Totals(fn_ret[1].value) = <<n, OrZero(m), OrZero(k)>>
            /\ line = <<" ","3"," ","f","i","l","e","s"," ","c","h","a","n","g","e","d",",",
                        " ","1","0"," ","i","n","s","e","r","t","i","o","n","s","(","+",")",
                        ","," ","2"," ","d","e","l","e","t","i","o","n","s","(","-",")">>
                   => Totals(fn_ret[1].value) = <<3, 10, 2>>
            /\ line = <<" ","1"," ","f","i","l","e"," ","c","h","a","n","g","e","d">>
                   => Totals(fn_ret[1].value) = <<1, 0, 0>>

\* C4 witness: two per-file lines, then "3 files changed, 10 insertions(+),
\* 2 deletions(-)", parsed
C4_Witness ==
    /\ pc = "returned"
    /\ fn_arg[1].returncode = 0
    /\ Len(splitlines(fn_arg[1].stdout)) = 3
    /\ LastLine(fn_arg[1].stdout) =
           <<" ">> \o SummaryText(3, TRUE, Some(10), TRUE, Some(2), TRUE)
    /\ Totals(fn_ret[1].value) = <<3, 10, 2>>

\* the lines of a rendered text
TextLines(t) == split(t, LF, -1)

\* is the sequence want found in have, in order, other elements between
RECURSIVE InOrder(_, _)
InOrder(want, have) ==
    IF want = <<>> THEN TRUE
    ELSE IF have = <<>> THEN FALSE
    ELSE IF Head(want) = Head(have) THEN InOrder(Tail(want), Tail(have))
    ELSE InOrder(want, Tail(have))

RECURSIVE Concat(_)
Concat(seqs) == IF seqs = <<>> THEN <<>> ELSE Head(seqs) \o Concat(Tail(seqs))

\* the heading, the Changes bullet and the table rows the report owes summary k
OwedLines(k) ==
    LET sm == summaries[k]
    IN  << <<"#","#"," ">> \o identifier(sm) \o <<":"," ">> \o merge_commits[k].subject,
           <<"-"," ","*","*","C","h","a","n","g","e","s",":","*","*"," ">>
           \o str(sm.files_changed) \o <<" ","f","i","l","e","(","s",")",","," ">>
           \o str(sm.insertions)
           \o <<" ","i","n","s","e","r","t","i","o","n","(","s",")",","," ">>
           \o str(sm.deletions) \o <<" ","d","e","l","e","t","i","o","n","(","s",")">> >>
        \o [i \in 1..Len(sm.file_summaries) |->
              <<"|"," ">> \o sm.file_summaries[i][1] \o <<" ","|"," ">>
              \o sm.file_summaries[i][2] \o <<" ","|">>]

\* the rows of the file tables of a rendered text: the lines that start with
\* "| " and are neither the table header nor its rule
TableRows(t) ==
    SelectSeq(TextLines(t),
              LAMBDA l : /\ LitAt(l, 1, <<"|"," ">>)
                         /\ l # <<"|"," ","F","i","l","e"," ","|"," ","D","i","f","f","s",
                                  "t","a","t"," ","|">>
                         /\ l # <<"|"," ","-","-","-"," ","|"," ","-","-","-"," ","|">>)

\* the scenario of the specification: one merge commit, PR #42, one file
Scenario42 ==
    /\ Len(merge_commits) = 1
    /\ merge_commits[1].subject = SubjectPR42
    /\ Len(git_log) = 3
    /\ git_log[3].result.returncode = 0
    /\ git_log[3].result.stdout = DiffstatOneFile

\* C5: when every git query succeeded, the report holds for each merge
\* commit, in history order, its "## <identifier>: <subject>" heading, its
\* Changes bullet with the parsed totals and one table row per parsed file
\* entry; in the scenario of PR #42 these are the three lines below, with
\* exactly one table row.
C5_ReportHoldsEveryCommit ==
    markdown # None =>
        /\ Len(summaries) = Len(merge_commits)
        /\ InOrder(Concat([k \in 1..Len(summaries) |-> OwedLines(k)]),
                   TextLines(markdown[1]))
        /\ Len(TableRows(markdown[1])) =
               Len(Concat([k \in 1..Len(summaries) |-> summaries[k].file_summaries]))
        /\ Scenario42 =>
             /\ InOrder(
                  << <<"#","#"," ","P","R"," ","#","4","2",":"," ","M","e","r","g","e"," ",
                       "p","u","l","l"," ","r","e","q","u","e","s","t"," ","#","4","2"," ",
                       "f","r","o","m"," ","u","s","e","r","/","b","r","a","n","c","h">>,
                     <<"-"," ","*","*","C","h","a","n","g","e","s",":","*","*"," ","1"," ",
                       "f","i","l","e","(","s",")",","," ","3"," ","i","n","s","e","r","t",
                       "i","o","n","(","s",")",","," ","2"," ","d","e","l","e","t","i","o",
                       "n","(","s",")">>,
                     <<"|"," ","s","r","c","/","a",".","p","y"," ","|"," ","5"," ","+","+",
                       "+","-","-"," ","|">> >>,
                  TextLines(markdown[1]))
             /\ TableRows(markdown[1]) =
                  << <<"|"," ","s","r","c","/","a",".","p","y"," ","|"," ","5"," ","+","+",
                       "+","-","-"," ","|">> >>

\* C5 witness: the run of the PR #42 scenario delivered its report
C5_Witness == pc = "done" /\ Scenario42 /\ markdown # None

\* C6: run_git_command returns stdout when git exits with 0; for every other
\* exit status it raises GitError with the stderr text between its first and
\* last non-whitespace characters, or "git command failed" when there is
\* none, and returns no output.
C6_StdoutOrGitError ==
    pc = "returned" =>
        LET res   == fn_arg[1]
            r     == fn_ret[1]
            solid == {i \in 1..Len(res.stderr) : res.stderr[i] \notin Whitespace}
        IN  IF res.returncode = 0
            THEN ~r.raised /\ r.exc.type = "none" /\ r.value = res.stdout
            ELSE /\ r.raised
                 /\ r.value = <<>>
                 /\ r.exc.type = "GitError"
                 /\ r.exc.msg =
                        IF solid = {}
                        THEN <<"g","i","t"," ","c","o","m","m","a","n","d"," ","f","a","i",
                               "l","e","d">>
                        ELSE SubSeq(res.stderr, SetMin(solid), SetMax(solid))

\* C6 witness: git exited with 128, with output on stdout and a message
\* wrapped in whitespace on stderr, and GitError was raised
C6_Witness ==
    /\ pc = "returned"
    /\ fn_arg[1].returncode = 128
    /\ fn_arg[1].stdout # <<>>
    /\ fn_arg[1].stderr = <<" ",LF>> \o FatalNotARepo \o <<" ",LF>>
    /\ fn_ret[1].raised

\* the file systems a run can start from
InitialFileSystems == {[p \in Paths |-> None], [p \in Paths |-> Some(OldReport)]}

\* C7: once a git query failed, it is the last query of the run (no later
\* query, no retry), the run has ended with that GitError, nothing was
\* rendered, and neither standard output nor any file received text.
C7_GitFailureAborts ==
    \A k \in 1..Len(git_log) :
        git_log[k].result.returncode # 0 =>
            /\ k = Len(git_log)
            /\ pc = "raised"
            /\ exc.type = "GitError"
            /\ exc = run_git_command(git_log[k].result).exc
            /\ markdown = None
            /\ stdout = <<>>
            /\ fs \in InitialFileSystems

\* C7 witness: the diffstat query of the second commit failed after the
\* first commit's summary was built
C7_Witness ==
    /\ pc = "raised"
    /\ Len(git_log) = 5
    /\ git_log[5].result.returncode # 0
    /\ git_log[5].argv = DiffstatArgs(merge_commits[2].commit)
    /\ Len(summaries) = 1

\* C8: with --stdout, the text on standard output is the text render_markdown
\* produced, character for character.
C8_StdoutSameText ==
    (pc = "done" /\ args.stdout) => stdout = markdown[1]

\* C9 as claimed: pr_number is absent or strictly positive
C9_PrNumberPositive ==
    \A k \in 1..Len(summaries) :
        summaries[k].pr_number = None \/ summaries[k].pr_number[1] > 0

\* C9 as amended: in every summary built, pr_number is absent or the
\* non-negative integer the digits of "Merge pull request #<id>" in the
\* title denote (0 included), and identifier is "PR #<n>" exactly for the
\* summaries that carry such an n.
C9_PrNumberNonNegative ==
    \A k \in 1..Len(summaries) :
        LET sm == summaries[k]
        IN  /\ sm.pr_number # None =>
                /\ sm.pr_number[1] >= 0
                /\ MergeAt(sm.title) # 0
                /\ sm.pr_number[1] = Decimal(MergeDigits(sm.title))
                /\ identifier(sm) = PRPrefix \o Canonical(MergeDigits(sm.title))
            /\ sm.pr_number = None => ~LitAt(identifier(sm), 1, PRPrefix)

\* C9 witness: a summary for "Merge pull request #0 ..." was built
C9_Witness ==
    \E k \in 1..Len(summaries) :
        /\ summaries[k].title = SubjectPR0
        /\ summaries[k].pr_number = Some(0)
        /\ identifier(summaries[k]) = <<"P","R"," ","#","0">>

\* C10: a run that ended well delivered the report to one sink: with
\* --stdout no file was created or modified; without it nothing is on
\* standard output, the file at --output holds exactly the rendered text and
\* every other file is as it was.
C10_OneSink ==
    /\ args.stdout => fs \in InitialFileSystems
    /\ ~args.stdout => stdout = <<>>
    /\ pc = "done" =>
         IF args.stdout
         THEN stdout # <<>>
         ELSE /\ fs[args.output] = Some(markdown[1])
              /\ \A p \in Paths \ {args.output} : fs[p] \in {None, Some(OldReport)}

\* C10 witness: a run without --stdout ended well over a file that held an
\* old report
C10_Witness ==
    /\ pc = "done"
    /\ ~args.stdout
    /\ \E p \in Paths \ {args.output} : fs[p] = Some(OldReport)
    /\ fs[args.output] # Some(OldReport)
    /\ Len(summaries) = 2

\* the argument lists a run owes for the commits 1..n of its list: for each
\* commit, in order, the detail query and then the diffstat query on its hash
RECURSIVE OwedQueries(_)
OwedQueries(n) ==
    IF n = 0 THEN <<>>
    ELSE OwedQueries(n - 1)
         \o << [cmd |-> "log -1 --pretty=format:%an%x00%ad%x00%B",
                max_count |-> None, commit |-> Some(merge_commits[n].commit)],
               [cmd |-> "show --stat --pretty=format:",
                max_count |-> None, commit |-> Some(merge_commits[n].commit)] >>

\* C11: a run that found n merge commits and reached rendering has issued
\* exactly 1 + 2n git invocations: the listing, then for each commit in
\* listing order its detail query and its diffstat query, both on that
\* commit's hash; summary i is built from the results of queries 2i and
\* 2i + 1 and of no other; and the log of invocations is the same in every
\* state from the start of rendering to the end of the run.
C11_QueriesInOrder ==
    pc \in {"render_markdown", "output", "done"} =>
        LET n == Len(merge_commits)
        IN  /\ Len(git_log) = 1 + 2 * n
            /\ git_log[1].argv = [cmd |-> "log --merges --pretty=format:%H%x00%s",
                                  max_count |-> Some(args.limit), commit |-> None]
            /\ [i \in 1..(2 * n) |-> git_log[i + 1].argv] = OwedQueries(n)
            /\ Len(summaries) = n
            /\ \A i \in 1..n :
                 summaries[i] =
                     build_summary(merge_commits[i],
                                   extract_commit_details(git_log[2 * i].result).value,
                                   parse_diffstat(git_log[2 * i + 1].result).value)

\* C11 witness: a run over two merge commits ended after five invocations
C11_Witness ==
    /\ pc = "done"
    /\ Len(merge_commits) = 2
    /\ Len(git_log) = 5
    /\ git_log[2].result # git_log[4].result

\* the records of a listing: the texts git wrote between the newlines of the
\* "%H%x00%s" format, the empty ones left out
ListingRecords(out) == SelectSeq(split(out, LF, -1), LAMBDA l : l # <<>>)

\* the position of the first NUL of a record
FirstNul(l) == SetMin({i \in 1..Len(l) : l[i] = NUL})

\* C12: get_merge_commits returns one triple per non-blank line of the
\* listing, in the order of the lines; the hash is the text before the
\* line's first NUL and the subject is all the text after it, verbatim.
C12_OneTriplePerLine ==
    (pc = "returned" /\ fn_arg[1].returncode = 0) =>
        LET recs == ListingRecords(fn_arg[1].stdout)
        IN  /\ ~fn_ret[1].raised
            /\ Len(fn_ret[1].value) = Len(recs)
            /\ \A i \in 1..Len(recs) :
                 /\ fn_ret[1].value[i].commit = SubSeq(recs[i], 1, FirstNul(recs[i]) - 1)
                 /\ fn_ret[1].value[i].subject =
                        SubSeq(recs[i], FirstNul(recs[i]) + 1, Len(recs[i]))

\* x without the whitespace around it
Trimmed(x) ==
    LET solid == {i \in 1..Len(x) : x[i] \notin Whitespace}
    IN  IF solid = {} THEN <<>> ELSE SubSeq(x, SetMin(solid), SetMax(solid))

\* the lines of a diffstat that are not blank
DiffstatRecords(out) == SelectSeq(split(out, LF, -1), LAMBDA l : Trimmed(l) # <<>>)

HasBar(l) == \E i \in 1..Len(l) : l[i] = "|"
FirstBar(l) == SetMin({i \in 1..Len(l) : l[i] = "|"})

\* C13: parse_diffstat discards the blank lines; with no line left the result
\* is (0, 0, 0, []); otherwise file_summaries holds, in the order of the
\* lines, one pair for every line but the last that contains "|": the text
\* before its first "|" and the text after it, both trimmed; lines without
\* "|" and the last line give no pair.
C13_FileEntries ==
    (pc = "returned" /\ fn_arg[1].returncode = 0) =>
        LET recs  == DiffstatRecords(fn_arg[1].stdout)
            cands == SelectSeq(SubSeq(recs, 1, Len(recs) - 1), HasBar)
            r     == fn_ret[1].value
        IN  /\ ~fn_ret[1].raised
            /\ recs = <<>> =>
                 r = [files_changed |-> 0, insertions |-> 0, deletions |-> 0,
                      file_summaries |-> <<>>]
            /\ recs # <<>> =>
                 /\ Len(r.file_summaries) = Len(cands)
                 /\ \A i \in 1..Len(cands) :
                      r.file_summaries[i] =
                          << Trimmed(SubSeq(cands[i], 1, FirstBar(cands[i]) - 1)),
                             Trimmed(SubSeq(cands[i], FirstBar(cands[i]) + 1,
                                            Len(cands[i]))) >>

\* C13 witness: a line with two "|", a line without any, and a last line that
\* holds "|": one pair, cut at the first "|"
C13_Witness ==
    /\ pc = "returned"
    /\ fn_arg[1].returncode = 0
    /\ Len(DiffstatRecords(fn_arg[1].stdout)) = 3
    /\ HasBar(DiffstatRecords(fn_arg[1].stdout)[3])
    /\ ~HasBar(DiffstatRecords(fn_arg[1].stdout)[2])
    /\ fn_ret[1].value.file_summaries =
           << << <<"b">>, <<"c"," ","|"," ","2"," ","+","-">> >> >>

====
